---- MODULE Spec2Model ----
(***************************************************************************)
(* Model of the DailyFamedScoreBot webhook service (src/app.js).           *)
(*                                                                         *)
(* Two HTTP handlers are modelled:                                         *)
(*   POST /interactions               (with handleStatsCommand)            *)
(*   POST /process-stats-interaction  (the paginated history scan)         *)
(* together with the aggregation functions updateUserHistories,            *)
(* constructStats, constructStatsMessage and emptyStats.                   *)
(*                                                                         *)
(* JavaScript objects used as maps are modelled as sequences of            *)
(* [k |-> key, v |-> value] records so that the key order Object.keys      *)
(* returns is part of the model.  Message contents are sequences of        *)
(* tokens; the literal prefix "Framed #" is the three tokens               *)
(* "Framed", " ", "#".  The token "RED" stands for the failure glyph       *)
(* (the red square of src/app.js:289) and "GREEN" for the success glyph.   *)
(***************************************************************************)
EXTENDS Integers, Sequences, FiniteSets, TLC

\* ------------------------------------------------------------------ bounds

\* Largest number of messages in a channel's store.
MaxStore == 3

\* Page size of a history request.  The source asks for limit=100
\* (src/app.js:194); the model scales the page down so that stores of
\* MaxStore messages span several pages.
PageLimit == 2

\* Largest x-ratelimit-reset-after value, in seconds, a page response carries.
MaxResetAfter == 1

\* Largest number of qualifying messages folded in the aggregator
\* specification SpecAgg.
MaxFold == 3

\* ------------------------------------------------------- program constants

FRAMED_MESSAGE_START == <<"Framed", " ", "#">>

\* Factor that turns x-ratelimit-reset-after (seconds) into a sleep (ms).
MsPerSecond == 1000

\* The base every day is scored against: a day adds 6 - failedAttempts.
ScoreBase == 6

\* The values of payload.type.  The handler only compares them for equality
\* with InteractionType.PING, .MESSAGE_COMPONENT and .APPLICATION_COMMAND, so
\* they are kept as names; the last two are interaction types the handler
\* has no branch for.
InteractionTypes ==
    {"PING", "APPLICATION_COMMAND", "MESSAGE_COMPONENT",
     "APPLICATION_COMMAND_AUTOCOMPLETE", "MODAL_SUBMIT"}

\* The names of the commands the registration script installs
\* (TEST_COMMAND, STATS_COMMAND, CHALLENGE_COMMAND).
ALL_COMMANDS == {"test", "stats", "challenge"}

Digits == <<"0", "1", "2", "3", "4", "5", "6", "7", "8", "9">>

\* ------------------------------------------------- JavaScript object helpers

\* obj[k] !== undefined, for an object kept as a sequence of entries.
HasKey(obj, k) == \E j \in 1..Len(obj) : obj[j].k = k

\* obj[k], for a key the object has.
Get(obj, k) == obj[CHOOSE j \in 1..Len(obj) : obj[j].k = k].v

\* Object.keys(obj): the keys in the object's own enumeration order.
ObjectKeys(obj) == [j \in 1..Len(obj) |-> obj[j].k]

\* obj[k] = v for a string key that is no array index (a user id is a
\* snowflake, far above 2^32 - 2): an existing key keeps its position, a new
\* key is appended.
Put(obj, k, v) ==
    IF HasKey(obj, k)
    THEN [j \in 1..Len(obj) |-> IF obj[j].k = k THEN [k |-> k, v |-> v] ELSE obj[j]]
    ELSE Append(obj, [k |-> k, v |-> v])

\* obj[n] = v for an integer key: integer keys are enumerated in ascending
\* numeric order, whatever the order of insertion.
PutIndex(obj, n, v) ==
    IF HasKey(obj, n)
    THEN [j \in 1..Len(obj) |-> IF obj[j].k = n THEN [k |-> n, v |-> v] ELSE obj[j]]
    ELSE SelectSeq(obj, LAMBDA e : e.k < n)
            \o <<[k |-> n, v |-> v]>>
            \o SelectSeq(obj, LAMBDA e : e.k > n)

\* ---------------------------------------------------------- string helpers

\* content.startsWith(prefix)
StartsWith(content, prefix) ==
    /\ Len(content) >= Len(prefix)
    /\ SubSeq(content, 1, Len(prefix)) = prefix

IsDigit(t) == \E d \in 1..Len(Digits) : Digits[d] = t

DigitValue(t) == (CHOOSE d \in 1..Len(Digits) : Digits[d] = t) - 1

\* The longest run of digits a token sequence starts with: what (\d+)
\* captures, being greedy.
RECURSIVE DigitRun(_)
DigitRun(s) ==
    IF s = <<>> \/ ~IsDigit(Head(s))
    THEN <<>>
    ELSE <<Head(s)>> \o DigitRun(Tail(s))

\* new RegExp(`^${FRAMED_MESSAGE_START}(\\d+)`).exec(content): the captured
\* group regexMatches[1], or <<>> for the null a failed match returns.
RegexExec(content) ==
    IF StartsWith(content, FRAMED_MESSAGE_START)
    THEN DigitRun(SubSeq(content, Len(FRAMED_MESSAGE_START) + 1, Len(content)))
    ELSE <<>>

\* parseInt of a run of decimal digits (leading zeros carry no value).
RECURSIVE ParseDigits(_, _)
ParseDigits(s, acc) ==
    IF s = <<>> THEN acc
    ELSE ParseDigits(Tail(s), 10 * acc + DigitValue(Head(s)))

parseInt(s) == ParseDigits(s, 0)

\* (content.match(/RED/g) || []).length
CountFailed(content) == Cardinality({j \in 1..Len(content) : content[j] = "RED"})

\* ------------------------------------------------------------ the aggregator

\* regexMatches is null for this message: regexMatches[1] raises a TypeError.
RegexMatchIsNull(message) == RegexExec(message.content) = <<>>

\* updateUserHistories that keeps the day record a user already has.
updateUserHistoriesFirstWins(userHistories, message) ==
    LET day == parseInt(RegexExec(message.content))
        failedAttempts == CountFailed(message.content)
        old == IF HasKey(userHistories, message.author.id)
               THEN Get(userHistories, message.author.id)
               ELSE <<>>
        new == IF HasKey(old, day) THEN old
               ELSE PutIndex(old, day, [failedAttempts |-> failedAttempts])
    IN  Put(userHistories, message.author.id, new)

\* updateUserHistories(userHistories, message): the returned mapping.  It is
\* called only for a message whose regex match is not null.
updateUserHistories(userHistories, message) ==
    LET day == parseInt(RegexExec(message.content))
        failedAttempts == CountFailed(message.content)
        old == IF HasKey(userHistories, message.author.id)
               THEN Get(userHistories, message.author.id)
               ELSE <<>>
        new == PutIndex(old, day, [failedAttempts |-> failedAttempts])
    IN  Put(userHistories, message.author.id, new)

\* The object passed as userHistories, as it is once the call has returned.
\* Object.assign copies the top level only (src/app.js:283): a user added by
\* the call is added to the copy, but the history of a user the argument
\* already had is the same object in the copy, and the day record is
\* written into it (src/app.js:299-301).
userHistoriesAfterCall(userHistories, message) ==
    IF HasKey(userHistories, message.author.id)
    THEN updateUserHistories(userHistories, message)
    ELSE userHistories

emptyStats == [daysPlayed |-> 0, score |-> 0]

\* ReduceDays with the score of a day clamped at zero.
RECURSIVE ReduceDaysClamped(_, _)
ReduceDaysClamped(userHistory, userStats) ==
    IF userHistory = <<>> THEN userStats
    ELSE ReduceDaysClamped(Tail(userHistory),
            [daysPlayed |-> userStats.daysPlayed + 1,
             score |-> userStats.score
                       + (IF Head(userHistory).v.failedAttempts > ScoreBase THEN 0
                          ELSE ScoreBase - Head(userHistory).v.failedAttempts)])

\* The inner loop of constructStats over the days of one user's history.
RECURSIVE ReduceDays(_, _)
ReduceDays(userHistory, userStats) ==
    IF userHistory = <<>> THEN userStats
    ELSE ReduceDays(Tail(userHistory),
                    [daysPlayed |-> userStats.daysPlayed + 1,
                     score |-> userStats.score
                               + ScoreBase - Head(userHistory).v.failedAttempts])

constructStats(userHistories) ==
    [j \in 1..Len(userHistories) |->
        [k |-> userHistories[j].k,
         v |-> ReduceDays(userHistories[j].v, emptyStats)]]

\* ---- constructStats on objects.  The Stats objects live on a heap, a
\* sequence whose indices are the references; a UserStatsMap holds
\* references.  This is the same code as above with the identity of the
\* objects kept, so that two calls can be told apart.

\* emptyStats that hands out one object of the module, made on first use,
\* instead of a new object on every call.
emptyStatsObjectShared(heap) ==
    [heap |-> IF heap = <<>> THEN <<emptyStats>> ELSE heap, ref |-> 1]

\* emptyStats(): a new object is allocated and its reference returned.
emptyStatsObject(heap) ==
    [heap |-> Append(heap, emptyStats), ref |-> Len(heap) + 1]

\* The inner loop of constructStats: the fields of the object userStats
\* refers to are updated in place for every day of the history.
RECURSIVE UpdateUserStats(_, _, _)
UpdateUserStats(heap, userStats, userHistory) ==
    IF userHistory = <<>> THEN heap
    ELSE UpdateUserStats(
            [heap EXCEPT ![userStats] =
                [daysPlayed |-> @.daysPlayed + 1,
                 score |-> @.score + ScoreBase - Head(userHistory).v.failedAttempts]],
            userStats, Tail(userHistory))

\* The outer loop of constructStats over the users left to reduce.
RECURSIVE ConstructStatsLoop(_, _, _)
ConstructStatsLoop(heap, allUserStats, userHistories) ==
    IF userHistories = <<>> THEN [heap |-> heap, allUserStats |-> allUserStats]
    ELSE LET userStats == emptyStatsObject(heap)
         IN  ConstructStatsLoop(
                UpdateUserStats(userStats.heap, userStats.ref, Head(userHistories).v),
                Put(allUserStats, Head(userHistories).k, userStats.ref),
                Tail(userHistories))

\* constructStats(userHistories) called on a heap: the heap after the call
\* and the UserStatsMap returned.
constructStatsOnHeap(heap, userHistories) == ConstructStatsLoop(heap, <<>>, userHistories)

\* The Stats a UserStatsMap gives for its users when read on a heap.
ReadStats(heap, allUserStats) ==
    [j \in 1..Len(allUserStats) |->
        [k |-> allUserStats[j].k, v |-> heap[allUserStats[j].v]]]

\* constructStatsMessage with the blocks ordered by score, the highest first
\* (users of equal score in the order of the stats map).
constructStatsMessageByScore(stats, userIdsToNames) ==
    LET n == Len(stats)
        order == CHOOSE p \in [1..n -> 1..n] :
                    \A a, b \in 1..n :
                        a < b => \/ stats[p[a]].v.score > stats[p[b]].v.score
                                 \/ /\ stats[p[a]].v.score = stats[p[b]].v.score
                                    /\ p[a] < p[b]
    IN  [j \in 1..n |->
            [username |-> Get(userIdsToNames, stats[order[j]].k),
             score |-> stats[order[j]].v.score,
             daysPlayed |-> stats[order[j]].v.daysPlayed]]

\* constructStatsMessage: the text after the "Scores:" heading, one block per
\* key of the stats map, in Object.keys order.
constructStatsMessage(stats, userIdsToNames) ==
    [j \in 1..Len(stats) |->
        [username |-> Get(userIdsToNames, stats[j].k),
         score |-> stats[j].v.score,
         daysPlayed |-> stats[j].v.daysPlayed]]

\* ------------------------------------------------------------------- state

\* The interactions in flight.  Each is one POST /interactions request.
Reqs == {1, 2}

VARIABLES
    \* --- Discord
    store,          \* channel id -> the channel's messages, newest first
    \* --- POST /interactions, one handler run per request
    payload,        \* req.body
    hpc,            \* position of the handler: "received", "race", "done", "threw"
    response,       \* what the handler sent with res.send / res.status().json
    logged,         \* what handleStatsCommand logged after the race
    responsePromise,\* the fetch to /process-stats-interaction
    \* --- POST /process-stats-interaction, one handler run per dispatch
    ppc,            \* position of the handler
    allUserHistories,
    userIdsToName,
    earliestDiscoveredMessage,
    messagesResponse, \* the page response being awaited / read
    sleepLeft,      \* milliseconds left on the rate-limit sleep timer
    processResponse,\* what the handler sent with res.send
    \* --- history of outbound calls (not program state)
    pageRequests,   \* the page requests issued, in order: cursor and outcome
    visited,        \* ids of the messages the for loop has iterated, in order
    patches,        \* the follow-up PATCH calls issued
    window,         \* rate-limit window of the last page response
    \* --- the aggregator on its own (specification SpecAgg)
    foldInput,      \* the qualifying messages folded so far
    foldHistories,  \* the mapping updateUserHistories has accumulated
    foldCall        \* the argument of the last call, before it and after it

discordVars == <<store>>
interactionVars == <<payload, hpc, response, logged, responsePromise>>
scanVars == <<ppc, allUserHistories, userIdsToName, earliestDiscoveredMessage,
              messagesResponse, sleepLeft, processResponse>>
historyVars == <<pageRequests, visited, patches, window>>
aggVars == <<foldInput, foldHistories, foldCall>>
vars == <<discordVars, interactionVars, scanVars, historyVars, aggVars>>

\* ------------------------------------------------------------------ inputs

Glyphs(n, g) == [j \in 1..n |-> g]

\* The text of a game result: the prefix, the day, then the attempts.
Framed(digits, reds, greens) ==
    FRAMED_MESSAGE_START \o digits \o <<" ">> \o Glyphs(reds, "RED") \o Glyphs(greens, "GREEN")

Ann == [id |-> "U1", global_name |-> "Ann"]
Bob == [id |-> "U2", global_name |-> "Bob"]

\* What a channel's messages are drawn from: an author and a content.
MessageKinds ==
    { [author |-> Ann, content |-> Framed(<<"1", "2">>, 2, 1)],
      [author |-> Ann, content |-> Framed(<<"1", "3">>, 0, 1)],
      [author |-> Bob, content |-> Framed(<<"1", "2">>, 7, 0)],
      [author |-> Bob, content |-> <<"hello", " ", "Framed", " ", "#", "1">>],
      [author |-> Ann, content |-> FRAMED_MESSAGE_START \o <<" ", "1">>] }

\* A channel's store: its messages newest first, ids ascending with age
\* reversed (the newest message has the largest id, as snowflakes do).
StoreOf(kinds) ==
    [j \in 1..Len(kinds) |->
        [id |-> Len(kinds) - j + 1,
         content |-> kinds[j].content,
         author |-> kinds[j].author]]

Stores == UNION { {StoreOf(k) : k \in [1..n -> MessageKinds]} : n \in 0..MaxStore }

ChannelIds == {"c1", "c2"}

\* The store of channel c2, the same in every behaviour.
FixedStore ==
    StoreOf(<< [author |-> Bob, content |-> Framed(<<"1", "2">>, 7, 0)],
               [author |-> Ann, content |-> Framed(<<"1", "3">>, 0, 1)] >>)

CommandNames == ALL_COMMANDS \cup {"other"}

\* The (type, data.name) pairs of the interactions received.
InteractionKinds ==
    { [type |-> "PING", name |-> "none"],
      [type |-> "MESSAGE_COMPONENT", name |-> "none"],
      [type |-> "MODAL_SUBMIT", name |-> "none"],
      [type |-> "APPLICATION_COMMAND_AUTOCOMPLETE", name |-> "stats"] }
    \cup { [type |-> "APPLICATION_COMMAND", name |-> n] : n \in CommandNames }

\* payload.channel.last_message_id: the id of the newest message of the
\* channel, or of a newer message that has since been deleted.
LastMessageIds(st) == {Len(st), Len(st) + 1} \ {0}

Payload(i, kind, channel, last) ==
    [id |-> 100 + i,
     type |-> kind.type,
     data |-> [name |-> kind.name],
     channel |-> [id |-> channel, last_message_id |-> last],
     application_id |-> "app",
     token |-> i]

\* ------------------------------------------------------------ Discord's API

Min(a, b) == IF a <= b THEN a ELSE b

\* GET /channels/<id>/messages?before=<cursor>&limit=<limit>: up to limit
\* messages strictly older than the cursor, newest first.
ChannelMessages(st, before, limit) ==
    LET older == SelectSeq(st, LAMBDA m : m.id < before)
    IN  SubSeq(older, 1, Min(limit, Len(older)))

\* The x-ratelimit-remaining values a page response carries.
RemainingValues == {0, 1}

\* ------------------------------------------------------- POST /interactions

\* The positions of a /process-stats-interaction handler that has thrown: at
\* a page request, at a message of a page, at the PATCH.
Threw == {"threw at page request", "threw at message", "threw at PATCH"}

\* res.send(body) answers with status 200; res.status(400).json(..) with 400.
Send(type) == [status |-> 200, type |-> type]
ClientError(error) == [status |-> 400, type |-> error]

\* Route with the "test" command handed to handleStatsCommand as well.
RouteTestDeferred(p) ==
    IF p.type = "PING" THEN [call |-> "res.send", answer |-> Send("PONG")]
    ELSE IF p.type = "MESSAGE_COMPONENT"
         THEN [call |-> "res.send", answer |-> Send("CHANNEL_MESSAGE_WITH_SOURCE")]
    ELSE IF p.type = "APPLICATION_COMMAND"
         THEN IF p.data.name \in {"test", "stats"}
              THEN [call |-> "handleStatsCommand", answer |-> Send("none")]
              ELSE [call |-> "res.status", answer |-> ClientError("unknown command")]
    ELSE [call |-> "res.status", answer |-> ClientError("unknown interaction type")]

\* Route without the final fall-through for unknown command names: every
\* command that is not "test" is handed to handleStatsCommand.
RouteAnyCommandIsStats(p) ==
    IF p.type = "PING" THEN [call |-> "res.send", answer |-> Send("PONG")]
    ELSE IF p.type = "MESSAGE_COMPONENT"
         THEN [call |-> "res.send", answer |-> Send("CHANNEL_MESSAGE_WITH_SOURCE")]
    ELSE IF p.type = "APPLICATION_COMMAND"
         THEN IF p.data.name = "test"
              THEN [call |-> "res.send", answer |-> Send("CHANNEL_MESSAGE_WITH_SOURCE")]
              ELSE [call |-> "handleStatsCommand", answer |-> Send("none")]
    ELSE [call |-> "res.status", answer |-> ClientError("unknown interaction type")]

\* Route with the branches tested in another order: the command branch first,
\* entered for every payload that is no component interaction.
RoutePingAsCommand(p) ==
    IF p.type = "MESSAGE_COMPONENT"
    THEN [call |-> "res.send", answer |-> Send("CHANNEL_MESSAGE_WITH_SOURCE")]
    ELSE IF p.type \in {"APPLICATION_COMMAND", "PING"}
         THEN IF p.data.name = "test"
              THEN [call |-> "res.send", answer |-> Send("CHANNEL_MESSAGE_WITH_SOURCE")]
              ELSE IF p.data.name = "stats" \/ p.type = "PING"
              THEN [call |-> "handleStatsCommand", answer |-> Send("none")]
              ELSE [call |-> "res.status", answer |-> ClientError("unknown command")]
    ELSE [call |-> "res.status", answer |-> ClientError("unknown interaction type")]

\* The branch the handler takes for a payload (src/app.js:135-176): the
\* answer it gives at once, or the call of handleStatsCommand.
Route(p) ==
    IF p.type = "PING" THEN [call |-> "res.send", answer |-> Send("PONG")]
    ELSE IF p.type = "MESSAGE_COMPONENT"
         THEN [call |-> "res.send", answer |-> Send("CHANNEL_MESSAGE_WITH_SOURCE")]
    ELSE IF p.type = "APPLICATION_COMMAND"
         THEN IF p.data.name = "test"
              THEN [call |-> "res.send", answer |-> Send("CHANNEL_MESSAGE_WITH_SOURCE")]
              ELSE IF p.data.name = "stats"
              THEN [call |-> "handleStatsCommand", answer |-> Send("none")]
              ELSE [call |-> "res.status", answer |-> ClientError("unknown command")]
    ELSE [call |-> "res.status", answer |-> ClientError("unknown interaction type")]

\* The handler up to its first await.  handleStatsCommand starts the fetch to
\* /process-stats-interaction and the timer, and awaits their race.
Interactions(i) ==
    /\ hpc[i] = "received"
    /\ IF Route(payload[i]).call = "handleStatsCommand"
       THEN /\ responsePromise' = [responsePromise EXCEPT ![i] = "pending"]
            /\ hpc' = [hpc EXCEPT ![i] = "race"]
            /\ UNCHANGED response
       ELSE /\ response' = [response EXCEPT ![i] = Append(@, Route(payload[i]).answer)]
            /\ hpc' = [hpc EXCEPT ![i] = "done"]
            /\ UNCHANGED responsePromise
    /\ UNCHANGED <<payload, logged, discordVars, scanVars, historyVars, aggVars>>

\* AfterRace with the answer chosen by the outcome of the race: the deferred
\* answer only when the timer won.
AfterRaceByOutcome(result) ==
    [logged |-> IF result = "TIMEOUT"
                THEN "Request timed out. Continuing to process async"
                ELSE "Response received",
     sent |-> IF result = "TIMEOUT"
              THEN Send("DEFERRED_CHANNEL_MESSAGE_WITH_SOURCE")
              ELSE Send("CHANNEL_MESSAGE_WITH_SOURCE")]

\* handleStatsCommand after the race has yielded a result (src/app.js:265-274):
\* what is logged, and what is sent.
AfterRace(result) ==
    [logged |-> IF result = "TIMEOUT"
                THEN "Request timed out. Continuing to process async"
                ELSE "Response received",
     sent |-> Send("DEFERRED_CHANNEL_MESSAGE_WITH_SOURCE")]

\* The continuation of handleStatsCommand once the race is won by a promise
\* that fulfils.
Continue(i, result) ==
    /\ logged' = [logged EXCEPT ![i] = AfterRace(result).logged]
    /\ response' = [response EXCEPT ![i] = Append(@, AfterRace(result).sent)]
    /\ hpc' = [hpc EXCEPT ![i] = "done"]

\* TimeoutFires with the dispatch aborted when the timer wins the race: a
\* scan in flight is cancelled.
TimeoutFiresAborting(i) ==
    /\ hpc[i] = "race"
    /\ Continue(i, "TIMEOUT")
    /\ ppc' = [ppc EXCEPT ![i] = IF @ \in {"idle", "done"} \cup Threw THEN @ ELSE "aborted"]
    /\ UNCHANGED <<payload, responsePromise, discordVars, allUserHistories, userIdsToName,
                   earliestDiscoveredMessage, messagesResponse, sleepLeft, processResponse,
                   historyVars, aggVars>>

\* The timer of setTimeout(1000, "TIMEOUT") fires while the race is open.  The
\* durations of the network calls are not modelled, so the timer may fire at
\* any point of the background work.
TimeoutFires(i) ==
    /\ hpc[i] = "race"
    /\ Continue(i, "TIMEOUT")
    /\ UNCHANGED <<payload, responsePromise, discordVars, scanVars, historyVars, aggVars>>

\* The fetch fulfils: /process-stats-interaction has answered, or the
\* gateway in front of it has answered for a handler that threw.
DispatchFulfils(i) ==
    /\ responsePromise[i] = "pending"
    /\ ppc[i] \in {"done"} \cup Threw
    /\ responsePromise' = [responsePromise EXCEPT ![i] = "fulfilled"]
    /\ IF hpc[i] = "race"
       THEN Continue(i, "response")
       ELSE UNCHANGED <<logged, response, hpc>>
    /\ UNCHANGED <<payload, discordVars, scanVars, historyVars, aggVars>>

\* The fetch rejects (the connection fails).  While the race is open the
\* await of Promise.race throws: nothing catches it, and nothing is sent.
DispatchRejects(i) ==
    /\ responsePromise[i] = "pending"
    /\ responsePromise' = [responsePromise EXCEPT ![i] = "rejected"]
    /\ hpc' = [hpc EXCEPT ![i] = IF @ = "race" THEN "threw" ELSE @]
    /\ UNCHANGED <<payload, logged, response, discordVars, scanVars, historyVars, aggVars>>

\* ------------------------------------------ POST /process-stats-interaction

\* What a call of DiscordRequest (./utils.js) ends in: it returns the response
\* of the Discord API, or it throws on a transport or authorization failure.
DiscordRequestOutcomes == {"returns", "throws"}

\* DiscordRequest(`/channels/<id>/messages?before=<cursor>&limit=100`) is
\* called: the request leaves, and the handler awaits the response.
RequestPage(i, cursor) ==
    /\ pageRequests' = [pageRequests EXCEPT ![i] =
           Append(@, [before |-> cursor, outcome |-> "pending"])]
    /\ ppc' = [ppc EXCEPT ![i] = "await_response"]

\* The outcome of the page request in flight is known.
Settle(i, outcome) ==
    pageRequests' = [pageRequests EXCEPT ![i][Len(pageRequests[i])].outcome = outcome]

\* ProcessStats with the histories kept in one map of the module rather
\* than in a local of the handler: a scan starts from what the scans before
\* it have accumulated.
ProcessStatsSharedHistories(i) ==
    /\ responsePromise[i] = "pending"
    /\ ppc[i] = "idle"
    /\ allUserHistories' = [allUserHistories EXCEPT ![i] =
           allUserHistories[CHOOSE j \in Reqs : j # i]]
    /\ userIdsToName' = [userIdsToName EXCEPT ![i] =
           userIdsToName[CHOOSE j \in Reqs : j # i]]
    /\ earliestDiscoveredMessage' =
           [earliestDiscoveredMessage EXCEPT ![i] = payload[i].channel.last_message_id]
    /\ RequestPage(i, payload[i].channel.last_message_id)
    /\ UNCHANGED <<messagesResponse, sleepLeft, processResponse, visited, patches,
                   window, discordVars, interactionVars, aggVars>>

\* The handler starts on the dispatched payload: its locals are initialised
\* and the first page is requested with channel.last_message_id as cursor.
ProcessStats(i) ==
    /\ responsePromise[i] = "pending"
    /\ ppc[i] = "idle"
    /\ allUserHistories' = [allUserHistories EXCEPT ![i] = <<>>]
    /\ userIdsToName' = [userIdsToName EXCEPT ![i] = <<>>]
    /\ earliestDiscoveredMessage' =
           [earliestDiscoveredMessage EXCEPT ![i] = payload[i].channel.last_message_id]
    /\ RequestPage(i, payload[i].channel.last_message_id)
    /\ UNCHANGED <<messagesResponse, sleepLeft, processResponse, visited, patches,
                   window, discordVars, interactionVars, aggVars>>

\* Discord answers a page request: the page, and the two rate-limit headers.
PageResponds(i) ==
    /\ ppc[i] = "await_response"
    /\ "returns" \in DiscordRequestOutcomes
    /\ \E remaining \in RemainingValues, resetAfter \in 0..MaxResetAfter :
          /\ messagesResponse' = [messagesResponse EXCEPT ![i] =
                 [messages |-> ChannelMessages(store[payload[i].channel.id],
                                               earliestDiscoveredMessage[i], PageLimit),
                  remaining |-> remaining,
                  resetAfter |-> resetAfter]]
          /\ window' = [window EXCEPT ![i] =
                 [remaining |-> remaining, secondsLeft |-> resetAfter]]
    /\ Settle(i, "returned")
    /\ ppc' = [ppc EXCEPT ![i] = "await_json"]
    /\ UNCHANGED <<allUserHistories, userIdsToName, earliestDiscoveredMessage, sleepLeft,
                   processResponse, visited, patches,
                   discordVars, interactionVars, aggVars>>

\* PageFails with the failure caught and taken for the end of the history:
\* the loop is left and the stats gathered so far are sent.
PageFailsSalvaged(i) ==
    /\ ppc[i] = "await_response"
    /\ "throws" \in DiscordRequestOutcomes
    /\ patches' = [patches EXCEPT ![i] = Append(@,
           [application_id |-> payload[i].application_id,
            token |-> payload[i].token,
            content |-> constructStatsMessage(constructStats(allUserHistories[i]),
                                              userIdsToName[i])])]
    /\ Settle(i, "threw")
    /\ ppc' = [ppc EXCEPT ![i] = "await_patch"]
    /\ UNCHANGED <<allUserHistories, userIdsToName, earliestDiscoveredMessage,
                   messagesResponse, sleepLeft, processResponse, visited,
                   window, discordVars, interactionVars, aggVars>>

\* DiscordRequest throws for a page request (a transport or authorization
\* failure): the await throws and nothing in the handler catches it.
PageFails(i) ==
    /\ ppc[i] = "await_response"
    /\ "throws" \in DiscordRequestOutcomes
    /\ Settle(i, "threw")
    /\ ppc' = [ppc EXCEPT ![i] = "threw at page request"]
    /\ UNCHANGED <<allUserHistories, userIdsToName, earliestDiscoveredMessage,
                   messagesResponse, sleepLeft, processResponse, visited, patches, window,
                   discordVars, interactionVars, aggVars>>

\* ForLoop that skips a message whose text starts with the prefix but has no
\* day after it.
RECURSIVE ForLoopSkipping(_, _)
ForLoopSkipping(acc, messages) ==
    IF messages = <<>> \/ acc.threw THEN acc
    ELSE LET message == Head(messages)
             seen == Append(acc.visited, message.id)
         IN  IF ~StartsWith(message.content, FRAMED_MESSAGE_START) \/ RegexMatchIsNull(message)
             THEN ForLoopSkipping([acc EXCEPT !.visited = seen], Tail(messages))
             ELSE ForLoopSkipping(
                    [allUserHistories |-> updateUserHistories(acc.allUserHistories, message),
                     userIdsToName |-> Put(acc.userIdsToName, message.author.id,
                                           <<message.author.global_name>>),
                     visited |-> seen,
                     threw |-> FALSE],
                    Tail(messages))

\* The for loop over one page (src/app.js:199-205).  It stops at a message
\* for which updateUserHistories throws.
RECURSIVE ForLoop(_, _)
ForLoop(acc, messages) ==
    IF messages = <<>> \/ acc.threw THEN acc
    ELSE LET message == Head(messages)
             seen == Append(acc.visited, message.id)
         IN  IF ~StartsWith(message.content, FRAMED_MESSAGE_START)
             THEN ForLoop([acc EXCEPT !.visited = seen], Tail(messages))
             ELSE IF RegexMatchIsNull(message)
             THEN [acc EXCEPT !.visited = seen, !.threw = TRUE]
             ELSE ForLoop(
                    [allUserHistories |-> updateUserHistories(acc.allUserHistories, message),
                     userIdsToName |-> Put(acc.userIdsToName, message.author.id,
                                           <<message.author.global_name>>),
                     visited |-> seen,
                     threw |-> FALSE],
                    Tail(messages))

\* RateLimitReached with the comparison written as "below zero".
RateLimitReachedBelowZero(rateLimitRemaining) == rateLimitRemaining < 0

\* rateLimitRemaining <= 0
RateLimitReached(rateLimitRemaining) == rateLimitRemaining <= 0

\* const timeout = rateLimitResetAfter * 1000
SleepTimeout(rateLimitResetAfter) == rateLimitResetAfter * MsPerSecond

\* SendPatch with the endpoint built from the interaction id in place of the
\* interaction token.
SendPatchKeyedById(i, histories, names) ==
    /\ patches' = [patches EXCEPT ![i] = Append(@,
           [application_id |-> payload[i].application_id,
            token |-> payload[i].id,
            content |-> constructStatsMessage(constructStats(histories), names)])]
    /\ ppc' = [ppc EXCEPT ![i] = "await_patch"]

\* The code after the loop (src/app.js:221-232): the stats are reduced and
\* rendered, and the follow-up PATCH is issued.
SendPatch(i, histories, names) ==
    /\ patches' = [patches EXCEPT ![i] = Append(@,
           [application_id |-> payload[i].application_id,
            token |-> payload[i].token,
            content |-> constructStatsMessage(constructStats(histories), names)])]
    /\ ppc' = [ppc EXCEPT ![i] = "await_patch"]

\* The page has arrived (src/app.js:197-219): an empty page leaves the loop,
\* any other is folded, the cursor moves to its oldest message, and the
\* handler sleeps or asks for the next page.
ReadPage(i) ==
    /\ ppc[i] = "await_json"
    /\ LET messages == messagesResponse[i].messages
           done == ForLoop([allUserHistories |-> allUserHistories[i],
                            userIdsToName |-> userIdsToName[i],
                            visited |-> visited[i],
                            threw |-> FALSE], messages)
       IN  IF Len(messages) = 0
           THEN /\ SendPatch(i, allUserHistories[i], userIdsToName[i])
                /\ UNCHANGED <<allUserHistories, userIdsToName, visited,
                               earliestDiscoveredMessage, sleepLeft, pageRequests>>
           ELSE /\ allUserHistories' = [allUserHistories EXCEPT ![i] = done.allUserHistories]
                /\ userIdsToName' = [userIdsToName EXCEPT ![i] = done.userIdsToName]
                /\ visited' = [visited EXCEPT ![i] = done.visited]
                /\ UNCHANGED patches
                /\ IF done.threw
                   THEN /\ ppc' = [ppc EXCEPT ![i] = "threw at message"]
                        /\ UNCHANGED <<earliestDiscoveredMessage, sleepLeft, pageRequests>>
                   ELSE /\ earliestDiscoveredMessage' =
                               [earliestDiscoveredMessage EXCEPT ![i] =
                                    messages[Len(messages)].id]
                        /\ IF RateLimitReached(messagesResponse[i].remaining)
                           THEN /\ sleepLeft' = [sleepLeft EXCEPT ![i] =
                                        SleepTimeout(messagesResponse[i].resetAfter)]
                                /\ ppc' = [ppc EXCEPT ![i] = "sleep"]
                                /\ UNCHANGED pageRequests
                           ELSE /\ RequestPage(i, messages[Len(messages)].id)
                                /\ UNCHANGED sleepLeft
    /\ UNCHANGED <<messagesResponse, processResponse, window,
                   discordVars, interactionVars, aggVars>>

\* The sleep of setTimeout(timeout) is over: the loop condition holds (the
\* page was not empty) and the next page is requested.
Wake(i) ==
    /\ ppc[i] = "sleep"
    /\ sleepLeft[i] = 0
    /\ RequestPage(i, earliestDiscoveredMessage[i])
    /\ UNCHANGED <<allUserHistories, userIdsToName, earliestDiscoveredMessage,
                   messagesResponse, sleepLeft, processResponse, visited, patches,
                   window, discordVars, interactionVars, aggVars>>

\* The PATCH is answered: res.send({success: true}).
PatchResponds(i) ==
    /\ ppc[i] = "await_patch"
    /\ "returns" \in DiscordRequestOutcomes
    /\ processResponse' = [processResponse EXCEPT ![i] = Append(@, "success")]
    /\ ppc' = [ppc EXCEPT ![i] = "done"]
    /\ UNCHANGED <<allUserHistories, userIdsToName, earliestDiscoveredMessage,
                   messagesResponse, sleepLeft, historyVars,
                   discordVars, interactionVars, aggVars>>

\* DiscordRequest throws for the PATCH.
PatchFails(i) ==
    /\ ppc[i] = "await_patch"
    /\ "throws" \in DiscordRequestOutcomes
    /\ ppc' = [ppc EXCEPT ![i] = "threw at PATCH"]
    /\ UNCHANGED <<allUserHistories, userIdsToName, earliestDiscoveredMessage,
                   messagesResponse, sleepLeft, processResponse, historyVars,
                   discordVars, interactionVars, aggVars>>

Monus(a, b) == IF a >= b THEN a - b ELSE 0

\* One second passes.  Time is only followed between a page response and the
\* request after it, while a sleep or the window of a response that left no
\* request is running.
Tick ==
    /\ \E i \in Reqs :
          /\ ppc[i] \in {"await_json", "sleep"}
          /\ \/ sleepLeft[i] > 0
             \/ window[i].remaining = 0 /\ window[i].secondsLeft > 0
    /\ sleepLeft' = [i \in Reqs |-> Monus(sleepLeft[i], MsPerSecond)]
    /\ window' = [i \in Reqs |-> [window[i] EXCEPT !.secondsLeft = Monus(@, 1)]]
    /\ UNCHANGED <<ppc, allUserHistories, userIdsToName, earliestDiscoveredMessage,
                   messagesResponse, processResponse, pageRequests, visited, patches,
                   discordVars, interactionVars, aggVars>>

\* ---------------------------------------------------------- specifications

InitScan ==
    /\ hpc = [i \in Reqs |-> "received"]
    /\ response = [i \in Reqs |-> <<>>]
    /\ logged = [i \in Reqs |-> "nothing"]
    /\ responsePromise = [i \in Reqs |-> "none"]
    /\ ppc = [i \in Reqs |-> "idle"]
    /\ allUserHistories = [i \in Reqs |-> <<>>]
    /\ userIdsToName = [i \in Reqs |-> <<>>]
    /\ earliestDiscoveredMessage = [i \in Reqs |-> 0]
    /\ messagesResponse = [i \in Reqs |-> [messages |-> <<>>, remaining |-> 1, resetAfter |-> 0]]
    /\ sleepLeft = [i \in Reqs |-> 0]
    /\ processResponse = [i \in Reqs |-> <<>>]
    /\ pageRequests = [i \in Reqs |-> <<>>]
    /\ visited = [i \in Reqs |-> <<>>]
    /\ patches = [i \in Reqs |-> <<>>]
    /\ window = [i \in Reqs |-> [remaining |-> 1, secondsLeft |-> 0]]

InitAgg ==
    /\ foldInput = <<>>
    /\ foldHistories = <<>>
    /\ foldCall = [argument |-> <<>>, argumentAfter |-> <<>>]

\* One interaction of any kind on channel c1, whose store is any store, next
\* to a verification ping.
Init ==
    /\ store \in {st \in [ChannelIds -> Stores] : st["c2"] = FixedStore}
    /\ \E k1 \in InteractionKinds, l1 \in LastMessageIds(store["c1"]) :
            payload = [i \in Reqs |->
                          IF i = 1 THEN Payload(1, k1, "c1", l1)
                          ELSE Payload(2, [type |-> "PING", name |-> "none"], "c2",
                                       Len(store["c2"]))]
    /\ InitScan
    /\ InitAgg

Next ==
    \/ \E i \in Reqs : Interactions(i)
    \/ \E i \in Reqs : TimeoutFires(i)
    \/ \E i \in Reqs : DispatchFulfils(i)
    \/ \E i \in Reqs : DispatchRejects(i)
    \/ \E i \in Reqs : ProcessStats(i)
    \/ \E i \in Reqs : PageResponds(i)
    \/ \E i \in Reqs : PageFails(i)
    \/ \E i \in Reqs : ReadPage(i)
    \/ \E i \in Reqs : Wake(i)
    \/ \E i \in Reqs : PatchResponds(i)
    \/ \E i \in Reqs : PatchFails(i)
    \/ Tick

Spec == Init /\ [][Next]_vars

\* ---- two /stats commands at once, one on each channel.

\* The stores of channel c1 when two scans run side by side: an empty
\* channel, a channel without any result, and a channel with a result that
\* has no day.
PairStores ==
    { StoreOf(<< >>),
      StoreOf(<< [author |-> Bob, content |-> <<"hello", " ", "Framed", " ", "#", "1">>] >>),
      StoreOf(<< [author |-> Bob, content |-> Framed(<<"1", "2">>, 7, 0)],
                 [author |-> Ann, content |-> FRAMED_MESSAGE_START \o <<" ", "1">>] >>) }

StatsCommand == [type |-> "APPLICATION_COMMAND", name |-> "stats"]

\* The newest message of either channel was deleted before the command:
\* every message of the store is older than channel.last_message_id.
InitPair ==
    /\ store \in {st \in [ChannelIds -> PairStores \cup {FixedStore}] :
                      st["c1"] \in PairStores /\ st["c2"] = FixedStore}
    /\ payload = [i \in Reqs |->
                      IF i = 1 THEN Payload(1, StatsCommand, "c1", Len(store["c1"]) + 1)
                      ELSE Payload(2, StatsCommand, "c2", Len(store["c2"]) + 1)]
    /\ InitScan
    /\ InitAgg

SpecPair == InitPair /\ [][Next]_vars

\* ---- one /stats command whose scan is never starved: every pending step
\* of the handlers is eventually run, every request to Discord is
\* eventually answered or failed, and time passes.  ReadPage(i) is enabled
\* exactly while ppc[i] is "await_json" and it is the only step that leaves
\* that position, so its weak fairness is written on the position.

\* The stores of channel c1: those above, and a channel where Ann posted two
\* results for the same day.
SmallStores ==
    PairStores \cup
    { StoreOf(<< [author |-> Bob, content |-> Framed(<<"1", "2">>, 7, 0)],
                 [author |-> Ann, content |-> Framed(<<"0", "1", "2">>, 0, 1)],
                 [author |-> Ann, content |-> Framed(<<"1", "2">>, 2, 1)] >>),
      StoreOf(<< [author |-> Ann, content |-> Framed(<<"1", "2">>, 7, 0)],
                 [author |-> Ann, content |-> Framed(<<"1", "2">>, 2, 1)],
                 [author |-> Ann, content |-> Framed(<<"1", "3">>, 0, 1)] >>) }

InitLive ==
    /\ store \in {st \in [ChannelIds -> SmallStores \cup {FixedStore}] :
                      st["c1"] \in SmallStores /\ st["c2"] = FixedStore}
    /\ \E l1 \in LastMessageIds(store["c1"]) :
            payload = [i \in Reqs |->
                          IF i = 1 THEN Payload(1, StatsCommand, "c1", l1)
                          ELSE Payload(2, [type |-> "PING", name |-> "none"], "c2",
                                       Len(store["c2"]))]
    /\ InitScan
    /\ InitAgg

Fairness ==
    /\ WF_vars(Tick)
    /\ \A i \in Reqs :
         /\ WF_vars(Interactions(i))
         /\ WF_vars(TimeoutFires(i))
         /\ WF_vars(DispatchFulfils(i))
         /\ WF_vars(ProcessStats(i))
         /\ WF_vars(PageResponds(i) \/ PageFails(i))
         /\ []<>(ppc[i] # "await_json")
         /\ WF_vars(Wake(i))
         /\ WF_vars(PatchResponds(i) \/ PatchFails(i))

SpecLive == InitLive /\ [][Next]_vars /\ Fairness

\* ---- the aggregator on its own: any sequence of qualifying messages is
\* folded with updateUserHistories, starting from the empty mapping.

\* The days a qualifying message can be about, and how its text writes them.
DayTexts ==
    { [day |-> 12, digits |-> <<"1", "2">>],
      [day |-> 13, digits |-> <<"1", "3">>],
      [day |-> 12, digits |-> <<"0", "1", "2">>] }

\* The numbers of failed attempts a qualifying message can show.
FailureCounts == {0, 2, 7}

\* A qualifying message, with what it is meant to say.
FoldInputs ==
    { [day |-> t.day,
       failedAttempts |-> f,
       message |-> [id |-> 0, author |-> a, content |-> Framed(t.digits, f, 1)]]
      : t \in DayTexts, f \in FailureCounts, a \in {Ann, Bob} }

Fold(input) ==
    /\ Len(foldInput) < MaxFold
    /\ foldInput' = Append(foldInput, input)
    /\ foldHistories' = updateUserHistories(foldHistories, input.message)
    /\ foldCall' = [argument |-> foldHistories,
                    argumentAfter |-> userHistoriesAfterCall(foldHistories, input.message)]
    /\ UNCHANGED <<discordVars, interactionVars, scanVars, historyVars>>

InitNoRequest ==
    /\ store = [c \in ChannelIds |-> <<>>]
    /\ payload = [i \in Reqs |-> Payload(i, [type |-> "PING", name |-> "none"], "c1", 1)]
    /\ InitScan
    /\ InitAgg

NextAgg == \E input \in FoldInputs : Fold(input)

SpecAgg == InitNoRequest /\ [][NextAgg]_vars

\* ------------------------------------------------------------------ claims

Deferred == Send("DEFERRED_CHANNEL_MESSAGE_WITH_SOURCE")

IsStatsCommand(i) ==
    payload[i].type = "APPLICATION_COMMAND" /\ payload[i].data.name = "stats"

\* No background work was caused by interaction i: no dispatch, no page
\* request, no follow-up PATCH.
NoBackgroundWork(i) ==
    /\ responsePromise[i] = "none"
    /\ ppc[i] = "idle"
    /\ pageRequests[i] = <<>>
    /\ patches[i] = <<>>

\* C1: every response POST /interactions sends for a stats command is of type
\* DEFERRED_CHANNEL_MESSAGE_WITH_SOURCE, and exactly that response has been
\* sent once the race was won by the timer or by the answered dispatch,
\* whatever was logged and however far the background work has come; the
\* outcome of the race shows only in what is logged.
C1_StatsAnswerIsDeferred ==
    \A i \in Reqs :
        IsStatsCommand(i) =>
            /\ \A j \in 1..Len(response[i]) : response[i][j] = Deferred
            /\ hpc[i] = "done" => response[i] = <<Deferred>>
            /\ logged[i] # "nothing" => response[i] = <<Deferred>>
            /\ hpc[i] = "done" => logged[i] # "nothing"

\* The dispatch was answered before the timer fired, after the whole
\* background work, and the deferred answer was sent.
C1_Witness ==
    \E i \in Reqs :
        /\ IsStatsCommand(i)
        /\ logged[i] = "Response received"
        /\ processResponse[i] = <<"success">>
        /\ response[i] = <<Deferred>>

\* C2: the deferred ack does not depend on the outcome of the dispatch: when
\* handleStatsCommand has ended, also because the dispatch was rejected
\* before the timer fired, the deferred ack has been sent.
C2_AckWhateverTheDispatchDoes ==
    \A i \in Reqs :
        IsStatsCommand(i) /\ hpc[i] \in {"done", "threw"} => response[i] = <<Deferred>>

\* C3: the follow-up PATCH of a stats interaction is issued only after the
\* deferred ack of that interaction has been sent.
C3_FollowUpOnlyAfterAck ==
    \A i \in Reqs : patches[i] # <<>> => response[i] = <<Deferred>>

\* C4: a PING is answered with exactly one response, PONG, and causes no
\* dispatch, no page request and no follow-up PATCH.
C4_PingYieldsPongOnly ==
    \A i \in Reqs :
        payload[i].type = "PING" =>
            /\ hpc[i] \in {"received", "done"}
            /\ hpc[i] = "received" => response[i] = <<>>
            /\ hpc[i] = "done" => response[i] = <<Send("PONG")>>
            /\ NoBackgroundWork(i)

\* A ping was answered while the stats command next to it had its scan running.
C4_Witness ==
    \E i, j \in Reqs :
        /\ payload[i].type = "PING"
        /\ response[i] = <<Send("PONG")>>
        /\ IsStatsCommand(j)
        /\ pageRequests[j] # <<>>

\* An interaction the handler has no branch for: a type that is none of
\* PING, MESSAGE_COMPONENT, APPLICATION_COMMAND, or a command that is neither
\* "test" nor "stats".
Unrecognized(i) ==
    \/ payload[i].type \notin {"PING", "MESSAGE_COMPONENT", "APPLICATION_COMMAND"}
    \/ /\ payload[i].type = "APPLICATION_COMMAND"
       /\ payload[i].data.name \notin {"test", "stats"}

\* C5: an unrecognized interaction is answered with status 400 and nothing
\* else, and causes no dispatch and no follow-up.
C5_UnrecognizedIsClientError ==
    \A i \in Reqs :
        Unrecognized(i) =>
            /\ hpc[i] \in {"received", "done"}
            /\ hpc[i] = "received" => response[i] = <<>>
            /\ hpc[i] = "done" => Len(response[i]) = 1 /\ response[i][1].status = 400
            /\ NoBackgroundWork(i)

\* Both kinds were answered: an unknown command name and an unknown type.
C5_Witness ==
    \E i \in Reqs :
        /\ payload[i].type = "APPLICATION_COMMAND"
        /\ payload[i].data.name = "other"
        /\ response[i] = <<ClientError("unknown command")>>

\* A component interaction or the "test" command.
ImmediateReply(i) ==
    \/ payload[i].type = "MESSAGE_COMPONENT"
    \/ payload[i].type = "APPLICATION_COMMAND" /\ payload[i].data.name = "test"

\* C6: a component interaction and the "test" command are answered at once
\* with CHANNEL_MESSAGE_WITH_SOURCE and nothing else: no deferred answer, no
\* follow-up, no background work.
C6_ImmediateReplyIsTerminal ==
    \A i \in Reqs :
        ImmediateReply(i) =>
            /\ hpc[i] \in {"received", "done"}
            /\ hpc[i] = "received" => response[i] = <<>>
            /\ hpc[i] = "done" => response[i] = <<Send("CHANNEL_MESSAGE_WITH_SOURCE")>>
            /\ NoBackgroundWork(i)

\* The "test" command was answered.
C6_Witness ==
    \E i \in Reqs :
        /\ payload[i].type = "APPLICATION_COMMAND"
        /\ payload[i].data.name = "test"
        /\ response[i] = <<Send("CHANNEL_MESSAGE_WITH_SOURCE")>>

\* ---- C7, under SpecAgg

\* The inputs folded so far that are of user u.
InputsOf(u) == {j \in 1..Len(foldInput) : foldInput[j].message.author.id = u}

\* The distinct day numbers seen for user u.
DaysSeen(u) == {foldInput[j].day : j \in InputsOf(u)}

\* The failed attempts of user u on day d: those of the last message folded
\* for that user and day.
FailedOn(u, d) ==
    LET last == CHOOSE j \in InputsOf(u) :
                    /\ foldInput[j].day = d
                    /\ \A k \in InputsOf(u) : foldInput[k].day = d => k <= j
    IN  foldInput[last].failedAttempts

RECURSIVE SumOver(_, _, _)
SumOver(u, days, acc) ==
    IF days = {} THEN acc
    ELSE LET d == CHOOSE x \in days : TRUE
         IN  SumOver(u, days \ {d}, acc + (6 - FailedOn(u, d)))

\* C7: after any sequence of qualifying messages is folded from the empty
\* mapping and reduced, the stats hold exactly the users seen, and for each
\* of them daysPlayed is the number of distinct day numbers seen and score is
\* the sum over those days of 6 - failedAttempts, unclamped.
C7_StatsOfFold ==
    LET stats == constructStats(foldHistories)
        users == {foldInput[j].message.author.id : j \in 1..Len(foldInput)}
    IN  /\ {stats[j].k : j \in 1..Len(stats)} = users
        /\ Len(stats) = Cardinality(users)
        /\ \A u \in users :
              /\ Get(stats, u).daysPlayed = Cardinality(DaysSeen(u))
              /\ Get(stats, u).score = SumOver(u, DaysSeen(u), 0)

\* The example of the specification, "Framed #12" with two failures then
\* "Framed #13" with none, both of U1: two days played, score 10.
C7_Witness ==
    /\ Len(foldInput) = 2
    /\ foldInput[1].message = [id |-> 0, author |-> Ann, content |-> Framed(<<"1", "2">>, 2, 1)]
    /\ foldInput[2].message = [id |-> 0, author |-> Ann, content |-> Framed(<<"1", "3">>, 0, 1)]
    /\ constructStats(foldHistories) = <<[k |-> "U1", v |-> [daysPlayed |-> 2, score |-> 10]]>>

\* ---- C8 to C10, under Spec

\* The scan of request i has left its loop on an empty page.
Exhausted(i) == ppc[i] \in {"await_patch", "done", "threw at PATCH"}

\* C8: when the scan has left its loop on an empty page, every message of
\* the channel's store has been visited exactly once.
C8_EveryMessageVisitedOnce ==
    \A i \in Reqs :
        Exhausted(i) =>
            \A m \in 1..Len(store[payload[i].channel.id]) :
                Cardinality({j \in 1..Len(visited[i]) :
                                visited[i][j] = store[payload[i].channel.id][m].id}) = 1

\* C9: no page is requested while the last page response reported no
\* remaining request and its reset-after seconds have not yet passed.
C9_NoRequestBeforeReset ==
    [][\A i \in Reqs :
          Len(pageRequests'[i]) > Len(pageRequests[i]) =>
              ~(window[i].remaining = 0 /\ window[i].secondsLeft > 0)]_vars

\* A page response reported no remaining request and a reset a second away,
\* and the next page has been requested.
C9_Witness ==
    \E i \in Reqs :
        /\ ppc[i] = "await_response"
        /\ Len(pageRequests[i]) >= 2
        /\ messagesResponse[i].remaining = 0
        /\ messagesResponse[i].resetAfter >= 1

\* C10: when a page request of a scan has failed, the scan is over with
\* nothing salvaged: the failed request is the last page request, the
\* handler has thrown, no follow-up PATCH is issued, and {success: true} is
\* not sent.
C10_FailedPageAbortsScan ==
    \A i \in Reqs :
        \A j \in 1..Len(pageRequests[i]) :
            pageRequests[i][j].outcome = "threw" =>
                /\ j = Len(pageRequests[i])
                /\ ppc[i] \in Threw
                /\ patches[i] = <<>>
                /\ processResponse[i] = <<>>

\* The second page request of a scan failed, after a page with a qualifying
\* message had been aggregated; the caller has since seen the error.
C10_Witness ==
    \E i \in Reqs :
        /\ Len(pageRequests[i]) = 2
        /\ pageRequests[i][2].outcome = "threw"
        /\ allUserHistories[i] # <<>>
        /\ responsePromise[i] = "fulfilled"

\* ---- C11, under Spec

\* C11: /process-stats-interaction answers only with {success: true}, and
\* only after the scan has read an empty page and the one follow-up PATCH,
\* keyed by the payload's application_id and token, has been issued; no
\* request issues more than one follow-up PATCH.
C11_SuccessOnlyOnCompletion ==
    \A i \in Reqs :
        /\ Len(patches[i]) <= 1
        /\ processResponse[i] # <<>> =>
              /\ processResponse[i] = <<"success">>
              /\ messagesResponse[i].messages = <<>>
              /\ \A j \in 1..Len(pageRequests[i]) : pageRequests[i][j].outcome = "returned"
              /\ Len(patches[i]) = 1
              /\ patches[i][1].application_id = payload[i].application_id
              /\ patches[i][1].token = payload[i].token

\* {success: true} was sent after a scan of three pages, the last one empty,
\* that found stats to send.
C11_Witness ==
    \E i \in Reqs :
        /\ processResponse[i] = <<"success">>
        /\ Len(pageRequests[i]) = 3
        /\ patches[i][1].content # <<>>
        /\ patches[i][1].token = payload[i].token

\* ---- C12, under SpecLive

\* The message of request i's channel that has this id.
MessageOf(i, id) ==
    LET st == store[payload[i].channel.id] IN st[Len(st) - id + 1]

\* Message m is a result of user u for day d.
IsResultOf(m, u, d) ==
    /\ m.author.id = u
    /\ StartsWith(m.content, FRAMED_MESSAGE_START)
    /\ ~RegexMatchIsNull(m)
    /\ parseInt(RegexExec(m.content)) = d

\* The red squares of a message.
Reds(m) == Cardinality({j \in 1..Len(m.content) : m.content[j] = "RED"})

UserIds == {Ann.id, Bob.id}
Days == {12, 13}

\* The records of user u for day d in the histories of request i.
RecordsOf(i, u, d) ==
    IF ~HasKey(allUserHistories[i], u) THEN <<>>
    ELSE SelectSeq(Get(allUserHistories[i], u), LAMBDA e : e.k = d)

\* C12: the histories hold, for a user and a day, exactly one record, that
\* of the result processed last for that user and day; and when a scan has
\* left its loop on an empty page, where a user posted several results for
\* one day the record kept is that of the oldest of them in the channel.
C12_LastWriteWins ==
    \A i \in Reqs, u \in UserIds, d \in Days :
        LET seen == {j \in 1..Len(visited[i]) : IsResultOf(MessageOf(i, visited[i][j]), u, d)}
            st == store[payload[i].channel.id]
            posted == {m \in 1..Len(st) : IsResultOf(st[m], u, d)}
        IN  /\ seen # {} =>
                LET last == CHOOSE j \in seen : \A k \in seen : k <= j
                IN  RecordsOf(i, u, d) =
                       << [k |-> d, v |-> [failedAttempts |-> Reds(MessageOf(i, visited[i][last]))]] >>
            /\ seen = {} => RecordsOf(i, u, d) = <<>>
            /\ Exhausted(i) /\ Cardinality(posted) >= 2 =>
                LET oldest == CHOOSE m \in posted : \A k \in posted : k <= m
                IN  RecordsOf(i, u, d) =
                       << [k |-> d, v |-> [failedAttempts |-> Reds(st[oldest])]] >>

\* A scan is over in a channel where Ann posted "Framed #012" with no
\* failure after "Framed #12" with two: both were visited, and the record of
\* day 12 holds the two failures of the older message.
C12_Witness ==
    /\ Exhausted(1)
    /\ Len(visited[1]) = 3
    /\ Reds(MessageOf(1, visited[1][2])) = 0
    /\ IsResultOf(MessageOf(1, visited[1][2]), "U1", 12)
    /\ Reds(MessageOf(1, visited[1][3])) = 2
    /\ IsResultOf(MessageOf(1, visited[1][3]), "U1", 12)
    /\ RecordsOf(1, "U1", 12) = << [k |-> 12, v |-> [failedAttempts |-> 2]] >>

\* ---- C13, under SpecAgg

\* C13: the mapping passed to updateUserHistories, nested per-user day
\* records included, is after the call what it was before the call.
C13_ArgumentUnchanged == foldCall.argumentAfter = foldCall.argument

\* ---- C14, under Spec

\* The text of message m starts with the prefix and no digit follows it.
HasNoDay(m) ==
    /\ StartsWith(m.content, FRAMED_MESSAGE_START)
    /\ \/ Len(m.content) = Len(FRAMED_MESSAGE_START)
       \/ ~IsDigit(m.content[Len(FRAMED_MESSAGE_START) + 1])

\* C14: a message that starts with "Framed #" without a digit right after it
\* is not skipped: the scan fails at that message, which is the last one it
\* visits, no follow-up PATCH is issued and {success: true} is not sent.
C14_NoDayAbortsScan ==
    \A i \in Reqs : \A j \in 1..Len(visited[i]) :
        HasNoDay(MessageOf(i, visited[i][j])) =>
            /\ j = Len(visited[i])
            /\ ppc[i] = "threw at message"
            /\ patches[i] = <<>>
            /\ processResponse[i] = <<>>

\* A scan failed at a message without a day on its second page, after it had
\* aggregated results of the first page.
C14_Witness ==
    \E i \in Reqs :
        /\ ppc[i] = "threw at message"
        /\ Len(pageRequests[i]) = 2
        /\ allUserHistories[i] # <<>>
        /\ HasNoDay(MessageOf(i, visited[i][Len(visited[i])]))

\* ---- C15, under SpecPair

\* What a scan of the messages ms alone accumulates, from empty locals.
ScanOf(ms) ==
    ForLoop([allUserHistories |-> <<>>, userIdsToName |-> <<>>,
             visited |-> <<>>, threw |-> FALSE], ms)

\* The messages request i has visited, taken from its own channel.
VisitedMessages(i) == [j \in 1..Len(visited[i]) |-> MessageOf(i, visited[i][j])]

\* The scan of request i has started.
Started(i) == ppc[i] # "idle"

\* What the run of /process-stats-interaction for request i holds and has
\* sent.
Locals(i) ==
    <<ppc[i], allUserHistories[i], userIdsToName[i], earliestDiscoveredMessage[i],
      messagesResponse[i], processResponse[i], pageRequests[i], visited[i], patches[i]>>

\* The histories, the name map and the cursor of every scan are those its
\* own visited messages give, and the content of its follow-up is what its
\* own channel alone gives.
OwnMessagesOnly ==
    \A i \in Reqs :
        LET own == ScanOf(VisitedMessages(i))
            st == store[payload[i].channel.id]
            channel == ScanOf(ChannelMessages(st, payload[i].channel.last_message_id, Len(st)))
        IN  /\ Started(i) =>
                /\ allUserHistories[i] = own.allUserHistories
                /\ userIdsToName[i] = own.userIdsToName
                /\ earliestDiscoveredMessage[i] =
                       IF visited[i] = <<>> \/ own.threw
                       THEN (IF pageRequests[i] = <<>> THEN payload[i].channel.last_message_id
                             ELSE pageRequests[i][Len(pageRequests[i])].before)
                       ELSE visited[i][Len(visited[i])]
            /\ patches[i] # <<>> =>
                patches[i][1].content =
                    constructStatsMessage(constructStats(channel.allUserHistories),
                                          channel.userIdsToName)

\* C15: two scans that run at once are isolated.  The histories, the name
\* map and the cursor of a scan are those its own messages give, the content
\* of its follow-up is what its own channel alone gives, and no step of one
\* scan, its failure included, changes what the other scan holds or has
\* sent.
C15_ScansAreIsolated ==
    /\ []OwnMessagesOnly
    /\ [][\A i, j \in Reqs :
             i # j /\ Locals(i)' # Locals(i) => Locals(j)' = Locals(j)]_vars

\* The scan of channel c1 failed at a message without a day after it had
\* aggregated a result, and the scan of channel c2 has completed with the
\* stats of its own two messages.
C15_Witness ==
    /\ ppc[1] = "threw at message"
    /\ allUserHistories[1] # <<>>
    /\ ppc[2] = "done"
    /\ processResponse[2] = <<"success">>
    /\ Len(patches[2][1].content) = 2
    /\ allUserHistories[2] # allUserHistories[1]

\* ---- C16, under SpecLive

\* The follow-up PATCH of request i was issued and Discord has answered it.
Delivered(i) == ppc[i] = "done" /\ Len(patches[i]) = 1

\* C16: a scan that has started runs until its follow-up PATCH is delivered,
\* unless a call to Discord fails or a message has no day; and no step of
\* the /interactions handler, the firing of the one-second timer included,
\* changes anything of a scan that has started.
C16_StartedScanCompletes ==
    /\ \A i \in Reqs : Started(i) ~> (Delivered(i) \/ ppc[i] \in Threw)
    /\ [][\A i \in Reqs :
             /\ Started(i)
             /\ hpc'[i] # hpc[i] \/ responsePromise'[i] # responsePromise[i]
             => Locals(i)' = Locals(i)]_vars

\* The timer fired first, the scan went on in a channel whose only message
\* is not a result, and the empty follow-up was delivered.
C16_Witness ==
    /\ Delivered(1)
    /\ logged[1] = "Request timed out. Continuing to process async"
    /\ visited[1] # <<>>
    /\ patches[1][1].content = <<>>

\* ---- C17, under Spec

\* The positions in visited[i] of the results of user u.
ResultsOf(i, u) ==
    {j \in 1..Len(visited[i]) :
        LET m == MessageOf(i, visited[i][j])
        IN  m.author.id = u /\ StartsWith(m.content, FRAMED_MESSAGE_START) /\ ~HasNoDay(m)}

\* The position at which the scan of request i first met a result of user u.
FirstMet(i, u) == CHOOSE j \in ResultsOf(i, u) : \A k \in ResultsOf(i, u) : j <= k

NameOf(u) == IF u = Ann.id THEN Ann.global_name ELSE Bob.global_name

\* C17: the follow-up holds exactly one block for every user the scan met a
\* result of, with the user's display name, score and days played, and the
\* blocks stand in the order in which the scan first met the users.
C17_BlocksInEncounterOrder ==
    \A i \in Reqs :
        patches[i] # <<>> =>
            LET content == patches[i][1].content
                users == {u \in UserIds : ResultsOf(i, u) # {}}
                stats == constructStats(allUserHistories[i])
            IN  /\ Len(content) = Cardinality(users)
                /\ \A u \in users :
                      LET rank == 1 + Cardinality({v \in users : FirstMet(i, v) < FirstMet(i, u)})
                      IN  content[rank] = [username |-> <<NameOf(u)>>,
                                           score |-> Get(stats, u).score,
                                           daysPlayed |-> Get(stats, u).daysPlayed]

\* The scan met Bob, whose score is -1, before Ann, whose score is higher:
\* Bob's block stands first, so the blocks are ordered neither by name nor
\* by score.
C17_Witness ==
    \E i \in Reqs :
        /\ patches[i] # <<>>
        /\ Len(patches[i][1].content) = 2
        /\ patches[i][1].content[1].username = <<"Bob">>
        /\ patches[i][1].content[1].score = -1
        /\ patches[i][1].content[2].username = <<"Ann">>
        /\ patches[i][1].content[2].score > 0

\* ---- C18, under SpecAgg

C19_InstalledCommandsRecognized ==
    \A i \in Reqs :
        payload[i].type = "APPLICATION_COMMAND" /\ payload[i].data.name \in ALL_COMMANDS =>
            \A j \in 1..Len(response[i]) : response[i][j] # ClientError("unknown command")

====
